---- MODULE Spec2Model ----
(***************************************************************************)
(* Model of app.py: the click-id Storage (in-memory dict or a Google       *)
(* Sheets worksheet used as a row store), the join-request handler, the    *)
(* chat-command handlers and the /webhook/{secret} route.                   *)
(***************************************************************************)
EXTENDS Integers, Sequences, FiniteSets, TLC

\* ------------------------------------------------------------------ bounds
NumValues == 1

\* classify_click_id is applied to the strings made of at most MaxTokens
\* pieces.
MaxTokens == 4

\* Telegram user ids of the users that talk to the bot.
Users == {7, 42}

\* A sheet that lost its header row grows by one row with every set_click;
\* it is followed until it holds as many rows as there are users.
MaxRows == Cardinality(Users)
Kinds == {"gclid", "gbraid", "wbraid"}

\* Click-id values: "a", "aa", ... and one that is all digits, "0".
Value(n) == [i \in 1..n |-> "a"]
Values == {Value(n) : n \in 1..NumValues} \cup {<<"0">>}

VARIABLES backend, mem, sheet, last, google_ads_client, ev, inflight

vars == <<backend, mem, sheet, last, google_ads_client, ev, inflight>>

\* ------------------------------------------------------- Python value model
\* None, as returned by get_click / dict.get: the empty tuple (falsy).
None == <<>>

Digit == <<"0", "1", "2", "3", "4", "5", "6", "7", "8", "9">>

\* str(n) for a non-negative int: its decimal digits.
RECURSIVE str(_)
str(n) == IF n < 10 THEN <<Digit[n + 1]>>
          ELSE str(n \div 10) \o <<Digit[(n % 10) + 1]>>

\* str(None)
StrNone == <<"N", "o", "n", "e">>

\* A Python int held where a str is expected is written <<"int", digits>>.
PyInt(n) == <<"int">> \o str(n)

\* int(s) for a str of decimal digits
RECURSIVE int(_)
int(s) ==
    IF s = <<>> THEN 0
    ELSE 10 * int(SubSeq(s, 1, Len(s) - 1))
           + ((CHOOSE d \in 1..10 : Digit[d] = s[Len(s)]) - 1)

\* bool(x) of a str, an int or None
truthy(x) == x # <<>> /\ x # PyInt(0)

\* ------------------------------------------------------------ Python text
\* A Python str is the sequence of its characters.
Upper == <<"A", "B", "C", "D", "E", "F", "G", "H", "I", "J", "K", "L", "M",
           "N", "O", "P", "Q", "R", "S", "T", "U", "V", "W", "X", "Y", "Z">>
Lower == <<"a", "b", "c", "d", "e", "f", "g", "h", "i", "j", "k", "l", "m",
           "n", "o", "p", "q", "r", "s", "t", "u", "v", "w", "x", "y", "z">>
Whitespace == {" ", "\t", "\n", "\r"}

Chars(s) == {s[i] : i \in 1..Len(s)}

lower_char(c) ==
    IF \E i \in 1..26 : Upper[i] = c
    THEN Lower[CHOOSE i \in 1..26 : Upper[i] = c]
    ELSE c

\* s.lower()
lower(s) == [i \in 1..Len(s) |-> lower_char(s[i])]

\* s.strip()
RECURSIVE strip(_)
strip(s) ==
    IF s = <<>> THEN s
    ELSE IF s[1] \in Whitespace THEN strip(Tail(s))
    ELSE IF s[Len(s)] \in Whitespace THEN strip(SubSeq(s, 1, Len(s) - 1))
    ELSE s

\* sub in s
contains(s, sub) ==
    \E i \in 1..(Len(s) - Len(sub) + 1) : SubSeq(s, i, i + Len(sub) - 1) = sub

\* s.startswith(p)
startswith(s, p) == Len(p) <= Len(s) /\ SubSeq(s, 1, Len(p)) = p

\* the longest run of [^&\s] characters of s from position i on
RECURSIVE run_from(_, _)
run_from(s, i) ==
    IF i > Len(s) \/ s[i] \in Whitespace \cup {"&"} THEN <<>>
    ELSE <<s[i]>> \o run_from(s, i + 1)

Max(S) == CHOOSE x \in S : \A y \in S : x >= y

\* re.sub(r"^.*marker([^&\s]+).*$", r"\1", v) for a stripped v: the greedy
\* .* takes the last marker that a [^&\s] character follows; "." matches no
\* newline, so a v holding one is left as it is.
re_sub_marker(marker, v) ==
    LET at == {i \in 1..(Len(v) - Len(marker)) :
                 /\ SubSeq(v, i, i + Len(marker) - 1) = marker
                 /\ v[i + Len(marker)] \notin Whitespace \cup {"&"}}
    IN IF at = {} \/ "\n" \in Chars(v) THEN v
       ELSE run_from(v, Max(at) + Len(marker))

TokenChars == Chars(Upper) \cup Chars(Lower) \cup Chars(Digit) \cup {".", "_", "-"}

\* re.match(r"^[A-Za-z0-9._-]{10,}$", v)
generic_token(v) == Len(v) >= 10 /\ Chars(v) \subseteq TokenChars

\* Mutant: with neither a marker nor the token pattern no kind is given.
classify_click_id_no_default(value) ==
    LET v == strip(value)
        low == lower(v)
    IN IF contains(low, <<"w", "b", "r", "a", "i", "d", "=">>) \/ startswith(low, <<"w", "b", "r", "a", "i", "d", ".">>)
       THEN <<"wbraid", re_sub_marker(<<"w", "b", "r", "a", "i", "d", "=">>, v)>>
       ELSE IF contains(low, <<"g", "b", "r", "a", "i", "d", "=">>) \/ startswith(low, <<"g", "b", "r", "a", "i", "d", ".">>)
       THEN <<"gbraid", re_sub_marker(<<"g", "b", "r", "a", "i", "d", "=">>, v)>>
       ELSE IF contains(low, <<"g", "c", "l", "i", "d", "=">>) \/ startswith(low, <<"c", ".">>)
       THEN <<"gclid", re_sub_marker(<<"g", "c", "l", "i", "d", "=">>, v)>>
       ELSE IF generic_token(v) THEN <<"gclid", v>>
       ELSE <<"", v>>

\* classify_click_id(value) -> (key, clean_value)
classify_click_id(value) ==
    LET v == strip(value)
        low == lower(v)
    IN IF contains(low, <<"w", "b", "r", "a", "i", "d", "=">>) \/ startswith(low, <<"w", "b", "r", "a", "i", "d", ".">>)
       THEN <<"wbraid", re_sub_marker(<<"w", "b", "r", "a", "i", "d", "=">>, v)>>
       ELSE IF contains(low, <<"g", "b", "r", "a", "i", "d", "=">>) \/ startswith(low, <<"g", "b", "r", "a", "i", "d", ".">>)
       THEN <<"gbraid", re_sub_marker(<<"g", "b", "r", "a", "i", "d", "=">>, v)>>
       ELSE IF contains(low, <<"g", "c", "l", "i", "d", "=">>) \/ startswith(low, <<"c", ".">>)
       THEN <<"gclid", re_sub_marker(<<"g", "c", "l", "i", "d", "=">>, v)>>
       ELSE IF generic_token(v) THEN <<"gclid", v>>
       ELSE <<"gclid", v>>

\* ------------------------------------------------------ worksheet (gspread)
\* A worksheet is the sequence of its non-empty rows.  Row 1 of a healthy
\* sheet is the header ["user_id", "key", "value"].
HeaderRow == [tag |-> "header", user_id |-> 0, key |-> "", value |-> <<>>]
BlankRow == [tag |-> "blank", user_id |-> 0, key |-> "", value |-> <<>>]
DataRow(user_id, key, value) ==
    [tag |-> "data", user_id |-> user_id, key |-> key, value |-> value]

\* Trailing empty rows are not part of a sheet's data.
RECURSIVE TrimBlank(_)
TrimBlank(rows) ==
    IF rows # <<>> /\ rows[Len(rows)].tag = "blank"
    THEN TrimBlank(SubSeq(rows, 1, Len(rows) - 1))
    ELSE rows

\* gspread's numericise, applied by get_all_records to every cell: a cell
\* that reads as an integer comes back as an int.
numericise(cell) ==
    IF cell # <<>> /\ \A i \in 1..Len(cell) : \E d \in 1..10 : Digit[d] = cell[i]
    THEN PyInt(int(cell))
    ELSE cell

\* Worksheet.get_all_records(): row 1 gives the keys, every later row one
\* dict.  A record keeps the row its keys came from.
get_all_records(sh) ==
    IF Len(sh) = 0 THEN <<>>
    ELSE [i \in 1..(Len(sh) - 1) |->
            [hdr |-> sh[1],
             row |-> [sh[i + 1] EXCEPT !.value = numericise(@)]]]

\* str(rec.get("user_id")): the cell under the "user_id" key; None when the
\* keys (row 1) are not the header.
rec_user_id_str(rec) ==
    IF rec.hdr.tag # "header" THEN StrNone
    ELSE IF rec.row.tag = "data" THEN str(rec.row.user_id)
    ELSE IF rec.row.tag = "header" THEN <<"u", "s", "e", "r", "_", "i", "d">>
    ELSE <<>>

\* (rec.get("key"), rec.get("value"))
rec_pair(rec) ==
    IF rec.hdr.tag = "header" /\ rec.row.tag = "data"
    THEN <<rec.row.key, rec.row.value>>
    ELSE None

\* [rec.get("user_id"), rec.get("key"), rec.get("value")]
rec_row(rec) == IF rec.hdr.tag = "header" THEN rec.row ELSE BlankRow

\* Worksheet.update("A{i}:C{i}", [row]); rows between the data and row i
\* stay empty.
update_row(sh, idx, row) ==
    IF idx <= Len(sh) THEN [sh EXCEPT ![idx] = row]
    ELSE [i \in 1..idx |-> IF i <= Len(sh) THEN sh[i]
                            ELSE IF i = idx THEN row ELSE BlankRow]

\* Mutant: the appended row is not written.
append_row_dropped(sh, row) == sh

\* Worksheet.append_row(row): after the last row that holds data.
append_row(sh, row) == Append(sh, row)

\* Worksheet.clear(): every cell, the header included.
clear(sh) == <<>>

\* Worksheet.update("A1", rows): rows written from row 1 down.
update_A1(sh, rows) ==
    LET n == IF Len(sh) > Len(rows) THEN Len(sh) ELSE Len(rows)
    IN TrimBlank([i \in 1..n |-> IF i <= Len(rows) THEN rows[i] ELSE sh[i]])

\* ------------------------------------------------------------ dict helpers
dict_put(d, k, v) == [x \in (DOMAIN d) \cup {k} |-> IF x = k THEN v ELSE d[x]]
dict_del(d, k) == [x \in (DOMAIN d) \ {k} |-> d[x]]
dict_get(d, k) == IF k \in DOMAIN d THEN d[k] ELSE None

\* entry -> (k, entry[k]) with k = next(iter(entry.keys())), or None
entry_pair(entry) ==
    IF DOMAIN entry = {} THEN None
    ELSE LET k == CHOOSE x \in DOMAIN entry : TRUE IN <<k, entry[k]>>

Min(S) == CHOOSE x \in S : \A y \in S : x <= y

\* ------------------------------------------------------------------ Storage
\* The Storage object: self.backend, self._mem, self._sheet (its rows).
Store == [backend |-> backend, mem |-> mem, sheet |-> sheet]

\* The remote calls of each method, in order; "none": no call raises.
SetFails == {"none", "read", "write"}
GetFails == {"none", "read"}
RemoveFails == {"none", "read", "clear", "update"}

\* Mutant: the except branch forgets self.backend = "memory".
set_click_fallback_no_downgrade(st, user_id, key, value) ==
    [st EXCEPT !.mem = dict_put(st.mem, user_id, key :> value)]

\* Mutant: the except branch forgets the write to self._mem.
set_click_fallback_no_write(st, user_id, key, value) ==
    [st EXCEPT !.backend = "memory"]

\* set_click's except branch: write the volatile map, record the downgrade.
set_click_fallback(st, user_id, key, value) ==
    [st EXCEPT !.mem = dict_put(st.mem, user_id, key :> value),
               !.backend = "memory"]

\* Mutant: a set_click on the memory backend switches back to sheets.
set_click_repromote(st, user_id, key, value, fail) ==
    IF st.backend = "memory"
    THEN [st |-> [st EXCEPT !.mem = dict_put(st.mem, user_id, key :> value),
                            !.backend = "sheets"],
          raised |-> FALSE]
    ELSE [st |-> set_click_fallback(st, user_id, key, value), raised |-> FALSE]

\* Storage.set_click(user_id, key, value); fail names the remote call that
\* raises.  Returns the store after the call and whether the call raised.
set_click(st, user_id, key, value, fail) ==
    IF st.backend = "memory"
    THEN [st |-> [st EXCEPT !.mem = dict_put(st.mem, user_id, key :> value)],
          raised |-> FALSE]
    ELSE IF fail = "read"
    THEN [st |-> set_click_fallback(st, user_id, key, value), raised |-> FALSE]
    ELSE LET records == get_all_records(st.sheet)
             hits == {i \in 1..Len(records) :
                        rec_user_id_str(records[i]) = str(user_id)}
             \* enumerate(records, start=2); 0 stands for None
             row_index == IF hits = {} THEN 0 ELSE Min(hits) + 1
         IN IF fail = "write"
            THEN [st |-> set_click_fallback(st, user_id, key, value),
                  raised |-> FALSE]
            ELSE IF row_index # 0
            THEN [st |-> [st EXCEPT !.sheet =
                            update_row(st.sheet, row_index, DataRow(user_id, key, value))],
                  raised |-> FALSE]
            ELSE [st |-> [st EXCEPT !.sheet =
                            append_row(st.sheet, DataRow(user_id, key, value))],
                  raised |-> FALSE]

\* Storage.get_click(user_id): the pair returned (None when absent).
get_click(st, user_id, fail) ==
    IF st.backend = "memory"
    THEN [ret |-> entry_pair(dict_get(st.mem, user_id)), raised |-> FALSE]
    ELSE IF fail = "read"
    THEN [ret |-> entry_pair(dict_get(st.mem, user_id)), raised |-> FALSE]
    ELSE LET records == get_all_records(st.sheet)
             hits == {i \in 1..Len(records) :
                        rec_user_id_str(records[i]) = str(user_id)}
         IN [ret |-> IF hits = {} THEN None ELSE rec_pair(records[Min(hits)]),
             raised |-> FALSE]

\* Mutant: the filter loop without its "continue": every row is kept.
kept_rows_all(records, user_id) ==
    [i \in 1..Len(records) |-> rec_row(records[i])]

\* records with the rows of user_id filtered out, as rows
RECURSIVE kept_rows(_, _)
kept_rows(records, user_id) ==
    IF records = <<>> THEN <<>>
    ELSE IF rec_user_id_str(Head(records)) = str(user_id)
    THEN kept_rows(Tail(records), user_id)
    ELSE <<rec_row(Head(records))>> \o kept_rows(Tail(records), user_id)

\* Mutant: the sheets branch starts with removed = True.
remove_click_removed_true(st, user_id, fail) ==
    IF st.backend = "memory"
    THEN [st |-> [st EXCEPT !.mem = dict_del(st.mem, user_id)],
          ret |-> dict_get(st.mem, user_id) # None,
          raised |-> FALSE]
    ELSE IF fail \in {"read", "clear"}
    THEN [st |-> st, ret |-> FALSE, raised |-> FALSE]
    ELSE IF fail = "update"
    THEN [st |-> [st EXCEPT !.sheet = clear(st.sheet)],
          ret |-> FALSE, raised |-> FALSE]
    ELSE [st |-> [st EXCEPT !.sheet =
                    update_A1(clear(st.sheet),
                              <<HeaderRow>>
                                 \o kept_rows(get_all_records(st.sheet), user_id))],
          ret |-> TRUE, raised |-> FALSE]

\* Storage.remove_click(user_id): the store after the call and the bool
\* returned.
remove_click(st, user_id, fail) ==
    IF st.backend = "memory"
    THEN [st |-> [st EXCEPT !.mem = dict_del(st.mem, user_id)],
          ret |-> dict_get(st.mem, user_id) # None,
          raised |-> FALSE]
    ELSE IF fail = "read" THEN [st |-> st, ret |-> FALSE, raised |-> FALSE]
    ELSE LET records == get_all_records(st.sheet)
             new_rows == <<HeaderRow>> \o kept_rows(records, user_id)
             removed == \E i \in 1..Len(records) :
                           rec_user_id_str(records[i]) = str(user_id)
         IN IF fail = "clear" THEN [st |-> st, ret |-> FALSE, raised |-> FALSE]
            ELSE IF fail = "update"
            THEN [st |-> [st EXCEPT !.sheet = clear(st.sheet)],
                  ret |-> FALSE, raised |-> FALSE]
            ELSE [st |-> [st EXCEPT !.sheet = update_A1(clear(st.sheet), new_rows)],
                  ret |-> removed, raised |-> FALSE]

\* ----------------------------------------------------------- store actions
\* The record of the most recent Storage call: its arguments, the remote
\* call that raised, the backend it found, and what it returned.
Call(op, user_id, key, value, fail, ret, removed, raised) ==
    [op |-> op, user_id |-> user_id, key |-> key, value |-> value,
     fail |-> fail, was |-> backend, ret |-> ret, removed |-> removed,
     raised |-> raised]

\* A remote call can raise only where one is made.
Fails(S) == IF backend = "sheets" THEN S ELSE {"none"}

\* Mutant: the except branch of the constructor does not reset the backend.
Storage_init_no_except(GSA_CREDENTIALS, SHEET_ID, init_ok) ==
    [backend |-> IF GSA_CREDENTIALS /\ SHEET_ID THEN "sheets" ELSE "memory",
     mem |-> <<>>,
     sheet |-> IF GSA_CREDENTIALS /\ SHEET_ID /\ init_ok
               THEN <<HeaderRow>> ELSE <<>>]

\* Storage.__init__: sheets when both settings are present and the
\* worksheet opens (or is created with its header row); memory otherwise.
\* init_ok: nothing inside the try raises.
Storage_init(GSA_CREDENTIALS, SHEET_ID, init_ok) ==
    [backend |-> IF GSA_CREDENTIALS /\ SHEET_ID /\ init_ok
                 THEN "sheets" ELSE "memory",
     mem |-> <<>>,
     sheet |-> IF GSA_CREDENTIALS /\ SHEET_ID /\ init_ok
               THEN <<HeaderRow>> ELSE <<>>]

\* Before any Storage call.
NoCall == [op |-> "init", user_id |-> 0, key |-> "", value |-> <<>>,
           fail |-> "none", was |-> "memory", ret |-> None,
           removed |-> FALSE, raised |-> FALSE]

\* No Storage call is under way.
Idle == <<>>

\* ST = Storage()
StorageInit ==
    \E GSA_CREDENTIALS \in BOOLEAN, SHEET_ID \in BOOLEAN, init_ok \in BOOLEAN :
        /\ backend = Storage_init(GSA_CREDENTIALS, SHEET_ID, init_ok).backend
        /\ mem = Storage_init(GSA_CREDENTIALS, SHEET_ID, init_ok).mem
        /\ sheet = Storage_init(GSA_CREDENTIALS, SHEET_ID, init_ok).sheet
        /\ last = NoCall
        /\ inflight = Idle

\* No upload made: the request fields unset.
NoUpload == [sent |-> FALSE, gclid |-> None, gbraid |-> None, wbraid |-> None,
             order_id |-> <<>>, outcome |-> "none"]

\* No webhook call received yet.
NoEvent == [secret |-> "", status |-> 0, ok |-> FALSE, json |-> "unread",
            parsed |-> FALSE, dispatched |-> FALSE, handler |-> "none",
            calls |-> <<>>, raised |-> FALSE, user_id |-> 0, pair |-> None,
            approve_ok |-> FALSE, upload |-> NoUpload]

\* The Storage object alone, no Google Ads client; the settings the
\* constructor found are kept with the record of the construction.
StoreInit ==
    /\ \E GSA_CREDENTIALS \in BOOLEAN, SHEET_ID \in BOOLEAN, init_ok \in BOOLEAN :
          /\ backend = Storage_init(GSA_CREDENTIALS, SHEET_ID, init_ok).backend
          /\ mem = Storage_init(GSA_CREDENTIALS, SHEET_ID, init_ok).mem
          /\ sheet = Storage_init(GSA_CREDENTIALS, SHEET_ID, init_ok).sheet
          /\ last = [NoCall EXCEPT !.key = "settings",
                                   !.ret = <<GSA_CREDENTIALS, SHEET_ID, init_ok>>]
    /\ inflight = Idle
    /\ google_ads_client = FALSE
    /\ ev = NoEvent

\* The rows of self._sheet the store can still reach: once backend is
\* "memory" every method returns from its memory branch and nothing sets
\* "sheets" again, so the worksheet's rows are left out of the state.
Visible(st) == IF st.backend = "sheets" THEN st.sheet ELSE <<>>

\* A sheet whose row 1 is the header holds one row per user; one that lost
\* its header grows with every set_click, and is cut off at MaxRows rows.
Bounded(sh) == IF Len(sh) = 0 THEN TRUE ELSE sh[1].tag = "header" \/ Len(sh) <= MaxRows

SetClick ==
    \E user_id \in Users, key \in Kinds, value \in Values, fail \in Fails(SetFails) :
        LET out == set_click(Store, user_id, key, value, fail)
        IN /\ Bounded(out.st.sheet)
           /\ backend' = out.st.backend
           /\ mem' = out.st.mem
           /\ sheet' = Visible(out.st)
           /\ last' = Call("set_click", user_id, key, value, fail,
                           None, FALSE, out.raised)
           /\ UNCHANGED <<google_ads_client, ev, inflight>>

GetClick ==
    \E user_id \in Users, fail \in Fails(GetFails) :
        LET out == get_click(Store, user_id, fail)
        IN /\ last' = Call("get_click", user_id, "", <<>>, fail,
                           out.ret, FALSE, out.raised)
           /\ UNCHANGED <<backend, mem, sheet, google_ads_client, ev, inflight>>

RemoveClick ==
    \E user_id \in Users, fail \in Fails(RemoveFails) :
        LET out == remove_click(Store, user_id, fail)
        IN /\ backend' = out.st.backend
           /\ mem' = out.st.mem
           /\ sheet' = Visible(out.st)
           /\ last' = Call("remove_click", user_id, "", <<>>, fail,
                           None, out.ret, out.raised)
           /\ UNCHANGED <<google_ads_client, ev, inflight>>

StoreNext == SetClick \/ GetClick \/ RemoveClick

StoreSpec == StoreInit /\ [][StoreNext]_vars

\* --------------------------------------------------------------- Google Ads
\* How conv_service.upload_click_conversions(request=req) ends.
UploadOutcomes == {"ok", "partial_failure", "raises"}

\* The kwargs built from the stored pair: the identifier under its kind, and
\* the dedup id "<prefix>-<user_id>-..." (timestamp and uuid part left out).
upload_kwargs(prefix, user_id, pair) ==
    LET key == pair[1]
        val == pair[2]
    IN [gclid |-> IF key = "gclid" THEN val ELSE None,
        gbraid |-> IF key # "gclid" /\ key = "gbraid" THEN val ELSE None,
        wbraid |-> IF key # "gclid" /\ key # "gbraid" THEN val ELSE None,
        order_id |-> prefix \o <<"-">> \o str(user_id) \o <<"-">>]

\* upload_click_conversion(**kwargs): raises without a client; otherwise one
\* upload request; a partial-failure response is logged and returned.
upload_click_conversion(client, kwargs, outcome) ==
    IF ~client
    THEN [req |-> NoUpload, raised |-> TRUE]
    ELSE [req |-> [sent |-> TRUE,
                   gclid |-> IF truthy(kwargs.gclid) THEN kwargs.gclid ELSE None,
                   gbraid |-> IF truthy(kwargs.gbraid) THEN kwargs.gbraid ELSE None,
                   wbraid |-> IF truthy(kwargs.wbraid) THEN kwargs.wbraid ELSE None,
                   order_id |-> IF truthy(kwargs.order_id)
                                THEN kwargs.order_id ELSE None,
                   outcome |-> outcome],
          raised |-> outcome = "raises"]

\* ----------------------------------------------------------------- handlers
\* What a handler did: the store it leaves, the calls it made in order,
\* whether an exception left it, the user it read, the pair get_click gave
\* it, whether the approval succeeded, and its upload.
Handled(st, calls, raised, user_id, pair, approve_ok, upload) ==
    [st |-> st, calls |-> calls, raised |-> raised, user_id |-> user_id,
     pair |-> pair, approve_ok |-> approve_ok, upload |-> upload]

\* A handler that returns at once (or no handler at all).
Nothing(st) == Handled(st, <<>>, FALSE, 0, None, FALSE, NoUpload)

\* await update.message.reply_text(...), which raises when the send fails
reply_text(st, reply_fails) ==
    Handled(st, <<"reply_text">>, reply_fails, 0, None, FALSE, NoUpload)

\* on_start_msg: update.message has no replyText attribute.
on_start_msg(st, has_message) ==
    IF has_message
    THEN Handled(st, <<>>, TRUE, 0, None, FALSE, NoUpload)
    ELSE Nothing(st)

\* on_any_msg: logs the update's keys.
on_any_msg(st) == Nothing(st)

\* args[0] of a /bind_click message: a click id inside a URL fragment.
RawArgs ==
    UNION {{<<"g", "c", "l", "i", "d", "=">> \o v,
            <<"g", "b", "r", "a", "i", "d", "=">> \o v,
            <<"x", "=", "1", "&">> \o <<"w", "b", "r", "a", "i", "d", "=">> \o v \o <<"&", "y">>} : v \in Values}

\* on_bind_click: "raw = ctx.args[0].strip()" and
\* "key, value = classify_click_id(raw)", for each argument, computed once.
bind_args == [r \in RawArgs |-> classify_click_id(strip(r))]

\* on_bind_click
on_bind_click(st, has_message, args, user_id, fail, reply_fails) ==
    IF ~has_message THEN Nothing(st)
    ELSE IF args = <<>> THEN reply_text(st, reply_fails)
    ELSE LET kc == bind_args[args[1]]
             out == set_click(st, user_id, kc[1], kc[2], fail)
         IN Handled(out.st, <<"set_click", "reply_text">>,
                    out.raised \/ reply_fails, user_id, None, FALSE, NoUpload)

\* on_whoami
on_whoami(st, has_message, user_id, fail, reply_fails) ==
    IF ~has_message THEN Nothing(st)
    ELSE LET got == get_click(st, user_id, fail)
         IN Handled(st, <<"get_click", "reply_text">>,
                    got.raised \/ reply_fails, user_id, got.ret, FALSE,
                    NoUpload)

\* on_clear_bind
on_clear_bind(st, has_message, user_id, fail, reply_fails) ==
    IF ~has_message THEN Nothing(st)
    ELSE LET out == remove_click(st, user_id, fail)
         IN Handled(out.st, <<"remove_click", "reply_text">>,
                    out.raised \/ reply_fails, user_id, None, FALSE, NoUpload)

\* on_convert_test
on_convert_test(st, client, has_message, user_id, fail, outcome, reply_fails) ==
    IF ~has_message THEN Nothing(st)
    ELSE IF ~client THEN reply_text(st, reply_fails)
    ELSE LET got == get_click(st, user_id, fail)
             pair == got.ret
             up == upload_click_conversion(
                       client, upload_kwargs(<<"t", "g">>, user_id, pair), outcome)
         IN IF pair = None
            THEN Handled(st, <<"get_click", "reply_text">>,
                         got.raised \/ reply_fails, user_id, pair, FALSE,
                         NoUpload)
            ELSE Handled(st,
                         <<"get_click", "upload_click_conversion", "reply_text">>
                            \o (IF ~up.raised /\ reply_fails
                                THEN <<"reply_text">> ELSE <<>>),
                         got.raised \/ reply_fails, user_id, pair, FALSE,
                         up.req)

\* Mutant: a failed approval is tried once more.
approve_step_retry(approve_ok) ==
    IF approve_ok THEN <<"approve">> ELSE <<"approve", "approve">>

\* on_join_request step 1: one await req.approve(), its exception logged.
approve_step(approve_ok) == <<"approve">>

\* Mutant: the upload is attempted for every stored pair, client or not.
should_upload_any_pair(client, pair) == pair # None

\* on_join_request step 2: "if google_ads_client and pair"
should_upload(client, pair) == client /\ pair # None

\* on_join_request
on_join_request(st, client, user_id, approve_ok, fail, outcome) ==
    LET got == get_click(st, user_id, fail)
        pair == got.ret
        up == IF should_upload(client, pair)
              THEN upload_click_conversion(
                       client, upload_kwargs(<<"j", "o", "i", "n">>, user_id, pair), outcome)
              ELSE [req |-> NoUpload, raised |-> FALSE]
    IN Handled(st,
               approve_step(approve_ok) \o <<"get_click">>
                  \o (IF should_upload(client, pair)
                      THEN <<"upload_click_conversion">> ELSE <<>>),
               FALSE, user_id, pair, approve_ok, up.req)

\* ------------------------------------------------------------------ webhook
WEBHOOK_SECRET == "s3cret"
Secrets == {WEBHOOK_SECRET, "guess"}

\* The request body: not JSON, JSON that is no object, an object that is no
\* update any handler takes, or an update.
Bodies == {"invalid", "not_object", "empty", "update"}

\* Mutant: the except clause logs and raises again.
try_except_reraise(raised) == raised

\* try: ... except Exception as e: logger...: whether anything leaves the
\* block.
try_except(raised) == FALSE

\* Mutant: the secret is not compared.
secret_rejected_never(secret) == FALSE

\* "if secret != WEBHOOK_SECRET"
secret_rejected(secret) == secret # WEBHOOK_SECRET

\* telegram_webhook(secret, request): the response, and how far the call
\* went.  process_raised: Update.de_json or tg_app.process_update raised.
telegram_webhook(secret, json, process_raised) ==
    IF secret_rejected(secret)
    THEN [status |-> 403, ok |-> FALSE, parsed |-> FALSE, dispatched |-> FALSE]
    ELSE LET \* json.loads raises, or payload.keys() on a non-object
             parse_raised == json \in {"invalid", "not_object"}
             parse_left == try_except(parse_raised)
             process_left == ~parse_left /\ try_except(process_raised)
         IN [status |-> IF parse_left \/ process_left THEN 500 ELSE 200,
             ok |-> ~(parse_left \/ process_left),
             parsed |-> TRUE,
             dispatched |-> ~parse_left]

\* One POST /webhook/{secret}: the route, and under it the handler the
\* dispatcher picks for the update (h: what that handler does).
Deliver(secret, json, dispatch_raises, handler, h) ==
    LET \* de_json raises on a payload that is no dict
        process_raised == json = "not_object" \/ dispatch_raises \/ h.raised
        w == telegram_webhook(secret, json, process_raised)
        handled == /\ w.dispatched
                   /\ json = "update"
                   /\ ~dispatch_raises
                   /\ handler # "none"
    IN /\ handled => Bounded(h.st.sheet)
       /\ backend' = IF handled THEN h.st.backend ELSE backend
       /\ mem' = IF handled THEN h.st.mem ELSE mem
       /\ sheet' = IF handled THEN Visible(h.st) ELSE sheet
       /\ ev' = [secret |-> secret, status |-> w.status, ok |-> w.ok,
                 json |-> IF w.parsed THEN json ELSE "unread",
                 parsed |-> w.parsed,
                 dispatched |-> w.dispatched,
                 handler |-> IF handled THEN handler ELSE "none",
                 calls |-> IF handled THEN h.calls ELSE <<>>,
                 raised |-> handled /\ h.raised,
                 user_id |-> IF handled THEN h.user_id ELSE 0,
                 pair |-> IF handled THEN h.pair ELSE None,
                 approve_ok |-> handled /\ h.approve_ok,
                 upload |-> IF handled THEN h.upload ELSE NoUpload]
       /\ UNCHANGED <<last, google_ads_client, inflight>>

\* module-level: the Google Ads client, when the three settings are present
\* and load_from_storage succeeds.
AdsInit ==
    \E ga_env \in BOOLEAN, load_ok \in BOOLEAN :
        google_ads_client = (ga_env /\ load_ok)

Init == StorageInit /\ AdsInit /\ ev = NoEvent

\* A call with a wrong secret, carrying a /bind_click or a join request.
Rejected ==
    \E secret \in Secrets \ {WEBHOOK_SECRET}, user_id \in Users :
        \/ \E r \in RawArgs :
              Deliver(secret, "update", FALSE, "on_bind_click",
                      on_bind_click(Store, TRUE, <<r>>, user_id, "none", FALSE))
        \/ Deliver(secret, "update", FALSE, "on_join_request",
                   on_join_request(Store, google_ads_client, user_id,
                                   TRUE, "none", "ok"))

\* A body that carries no update a handler takes.
Unparsed ==
    \E json \in Bodies \ {"update"} :
        Deliver(WEBHOOK_SECRET, json, FALSE, "none", Nothing(Store))

\* An update whose dispatch raises before any handler runs.
DispatchFails ==
    Deliver(WEBHOOK_SECRET, "update", TRUE, "on_any_msg", Nothing(Store))

JoinRequest ==
    \E user_id \in Users, approve_ok \in BOOLEAN, fail \in Fails(GetFails) :
        \E outcome \in IF should_upload(google_ads_client,
                                        get_click(Store, user_id, fail).ret)
                       THEN UploadOutcomes ELSE {"none"} :
            Deliver(WEBHOOK_SECRET, "update", FALSE, "on_join_request",
                    on_join_request(Store, google_ads_client, user_id,
                                    approve_ok, fail, outcome))

StartMsg ==
    \E has_message \in BOOLEAN :
        Deliver(WEBHOOK_SECRET, "update", FALSE, "on_start_msg",
                on_start_msg(Store, has_message))

\* The inputs a command handler reads when the update has a message.
UsersIf(has_message) == IF has_message THEN Users ELSE {0}
FailsIf(has_message, S) == IF has_message THEN Fails(S) ELSE {"none"}
SendFailsIf(has_message) == IF has_message THEN BOOLEAN ELSE {FALSE}

BindClick ==
    \E has_message \in BOOLEAN :
        \E user_id \in UsersIf(has_message),
           args \in IF has_message
                    THEN {<<>>} \cup {<<r>> : r \in RawArgs} ELSE {<<>>},
           reply_fails \in SendFailsIf(has_message) :
            \E fail \in FailsIf(args # <<>>, SetFails) :
                Deliver(WEBHOOK_SECRET, "update", FALSE, "on_bind_click",
                        on_bind_click(Store, has_message, args, user_id,
                                      fail, reply_fails))

ConvertTest ==
    \E has_message \in BOOLEAN :
        \E user_id \in UsersIf(has_message),
           fail \in FailsIf(has_message /\ google_ads_client, GetFails),
           reply_fails \in SendFailsIf(has_message) :
            \E outcome \in IF has_message /\ should_upload(google_ads_client,
                                        get_click(Store, user_id, fail).ret)
                           THEN UploadOutcomes ELSE {"none"} :
                Deliver(WEBHOOK_SECRET, "update", FALSE, "on_convert_test",
                        on_convert_test(Store, google_ads_client, has_message,
                                        user_id, fail, outcome, reply_fails))

WhoAmI ==
    \E has_message \in BOOLEAN :
        \E user_id \in UsersIf(has_message),
           fail \in FailsIf(has_message, GetFails),
           reply_fails \in SendFailsIf(has_message) :
            Deliver(WEBHOOK_SECRET, "update", FALSE, "on_whoami",
                    on_whoami(Store, has_message, user_id, fail, reply_fails))

ClearBind ==
    \E has_message \in BOOLEAN :
        \E user_id \in UsersIf(has_message),
           fail \in FailsIf(has_message, RemoveFails),
           reply_fails \in SendFailsIf(has_message) :
            Deliver(WEBHOOK_SECRET, "update", FALSE, "on_clear_bind",
                    on_clear_bind(Store, has_message, user_id, fail,
                                  reply_fails))

AnyMsg ==
    Deliver(WEBHOOK_SECRET, "update", FALSE, "on_any_msg", on_any_msg(Store))

Next ==
    \/ Rejected
    \/ Unparsed
    \/ DispatchFails
    \/ JoinRequest
    \/ StartMsg
    \/ BindClick
    \/ ConvertTest
    \/ WhoAmI
    \/ ClearBind
    \/ AnyMsg

Spec == Init /\ [][Next]_vars

\* ------------------------------------------------- classify_click_id alone
\* The marker each kind is recognised by.
MarkerOf == [gclid |-> <<"g", "c", "l", "i", "d", "=">>, gbraid |-> <<"g", "b", "r", "a", "i", "d", "=">>, wbraid |-> <<"w", "b", "r", "a", "i", "d", "=">>]

\* The pieces the input strings are made of: the markers, one in upper
\* case, a prefix, separators, whitespace and a plain character.
Tokens == {<<"g", "c", "l", "i", "d", "=">>, <<"g", "b", "r", "a", "i", "d", "=">>, <<"w", "b", "r", "a", "i", "d", "=">>, <<"G", "C", "L", "I", "D", "=">>, <<"w", "b", "r", "a", "i", "d", ".">>,
           <<"&">>, <<"\n">>, <<" ">>, <<"a">>}

RECURSIVE Flatten(_)
Flatten(ts) == IF ts = <<>> THEN <<>> ELSE Head(ts) \o Flatten(Tail(ts))

\* The strings made of at most n pieces.
Inputs(n) == UNION {{Flatten(ts) : ts \in [1..k -> Tokens]} : k \in 0..n}

\* The caller holds a str.
ClassifyInit ==
    /\ backend = Storage_init(FALSE, FALSE, FALSE).backend
    /\ mem = Storage_init(FALSE, FALSE, FALSE).mem
    /\ sheet = Storage_init(FALSE, FALSE, FALSE).sheet
    /\ \E value \in Inputs(MaxTokens) : last = [NoCall EXCEPT !.op = "str", !.value = value]
    /\ inflight = Idle
    /\ google_ads_client = FALSE
    /\ ev = NoEvent

\* key, value = classify_click_id(value)
Classify ==
    /\ last.op = "str"
    /\ last' = Call("classify_click_id", 0, "", last.value, "none",
                    classify_click_id(last.value), FALSE, FALSE)
    /\ UNCHANGED <<backend, mem, sheet, google_ads_client, ev, inflight>>

ClassifySpec == ClassifyInit /\ [][Classify]_vars

\* --------------------------------------- remote calls of two callers
\* Two handler invocations use the sheets backend, every remote call of
\* set_click and remove_click a step of its own; no call raises.
Callers == {1, 2}

\* A caller that has not called yet.
Waiting == [pc |-> "idle", op |-> "none", user_id |-> 0, key |-> "",
            value |-> <<>>, row_index |-> 0, new_rows |-> <<>>, removed |-> FALSE,
            alone |-> TRUE]

\* No remote call of another caller's operation is outstanding.
Alone(p) == \A q \in Callers \ {p} : inflight[q].pc \in {"idle", "done"}

\* The worksheet the constructor opened: its header, with or without a row
\* written by an earlier run.
RaceInit ==
    /\ backend = Storage_init(TRUE, TRUE, TRUE).backend
    /\ mem = Storage_init(TRUE, TRUE, TRUE).mem
    /\ \E rows \in {<<>>} \cup {<<DataRow(u, k, v)>> : u \in Users, k \in Kinds, v \in Values} :
          sheet = Storage_init(TRUE, TRUE, TRUE).sheet \o rows
    /\ last = NoCall
    /\ inflight = [p \in Callers |-> Waiting]
    /\ google_ads_client = FALSE
    /\ ev = NoEvent

\* set_click: records = get_all_records() and the search for the row
SetRead(p) ==
    /\ inflight[p].pc = "idle"
    /\ \E user_id \in Users, key \in Kinds, value \in Values :
          LET records == get_all_records(sheet)
              hits == {i \in 1..Len(records) :
                         rec_user_id_str(records[i]) = str(user_id)}
          IN inflight' = [inflight EXCEPT ![p] =
                 [Waiting EXCEPT !.pc = "write", !.op = "set_click",
                                 !.user_id = user_id, !.key = key,
                                 !.value = value,
                                 !.row_index = IF hits = {} THEN 0
                                               ELSE Min(hits) + 1,
                                 !.alone = Alone(p)]]
    /\ UNCHANGED <<backend, mem, sheet, last, google_ads_client, ev>>

\* set_click: update of the row found, or append_row
SetWrite(p) ==
    /\ inflight[p].pc = "write"
    /\ LET c == inflight[p]
       IN sheet' = IF c.row_index # 0
                   THEN update_row(sheet, c.row_index,
                                   DataRow(c.user_id, c.key, c.value))
                   ELSE append_row(sheet, DataRow(c.user_id, c.key, c.value))
    /\ inflight' = [inflight EXCEPT ![p].pc = "done"]
    /\ UNCHANGED <<backend, mem, last, google_ads_client, ev>>

\* remove_click: records = get_all_records() and the filter loop
RemoveRead(p) ==
    /\ inflight[p].pc = "idle"
    /\ \E user_id \in Users :
          LET records == get_all_records(sheet)
          IN inflight' = [inflight EXCEPT ![p] =
                 [Waiting EXCEPT !.pc = "clear", !.op = "remove_click",
                                 !.user_id = user_id,
                                 !.new_rows = <<HeaderRow>>
                                                 \o kept_rows(records, user_id),
                                 !.removed = \E i \in 1..Len(records) :
                                     rec_user_id_str(records[i]) = str(user_id),
                                 !.alone = Alone(p)]]
    /\ UNCHANGED <<backend, mem, sheet, last, google_ads_client, ev>>

\* remove_click: self._sheet.clear()
RemoveClear(p) ==
    /\ inflight[p].pc = "clear"
    /\ sheet' = clear(sheet)
    /\ inflight' = [inflight EXCEPT ![p].pc = "update"]
    /\ UNCHANGED <<backend, mem, last, google_ads_client, ev>>

\* remove_click: self._sheet.update("A1", new_rows); return removed
RemoveUpdate(p) ==
    /\ inflight[p].pc = "update"
    /\ sheet' = update_A1(sheet, inflight[p].new_rows)
    /\ inflight' = [inflight EXCEPT ![p].pc = "done"]
    /\ UNCHANGED <<backend, mem, last, google_ads_client, ev>>

RaceNext ==
    \E p \in Callers :
        \/ SetRead(p)
        \/ SetWrite(p)
        \/ RemoveRead(p)
        \/ RemoveClear(p)
        \/ RemoveUpdate(p)

RaceSpec == RaceInit /\ [][RaceNext]_vars

\* ------------------------------------------------------- claims on Storage
\* The store as it is after the step.
StoreAfter == [backend |-> backend', mem |-> mem', sheet |-> sheet']

\* The remote calls of get_click that can raise on a store.
GetFailsOn(st) == IF st.backend = "sheets" THEN GetFails ELSE {"none"}

\* What the store holds for user_id: what a get_click whose read succeeds
\* returns.
Lookup(st, user_id) == get_click(st, user_id, "none").ret

\* The rows (or the map entry) the active backend holds for user_id.
HeldBy(st, user_id) ==
    IF st.backend = "memory"
    THEN IF user_id \in DOMAIN st.mem THEN {user_id} ELSE {}
    ELSE {i \in 1..Len(st.sheet) :
            st.sheet[i].tag = "data" /\ st.sheet[i].user_id = user_id}

\* C1 (as claimed): set_click(u, k, v) immediately followed by get_click(u)
\* returns exactly (k, v), on either backend and whether or not a remote
\* call of either operation raises.
C1_RoundTrip ==
    [][(/\ last.op = "set_click"
        /\ last'.op = "get_click"
        /\ last'.user_id = last.user_id)
       => last'.ret = <<last.key, last.value>>]_vars

\* C2 (as claimed): the active backend never holds more than one binding per
\* user, and after set_click(u, k1, v1), set_click(u, k2, v2) a get_click(u)
\* (its read succeeding) returns (k2, v2).
C2_LastWriteWins ==
    [][/\ \A u \in Users : Cardinality(HeldBy(StoreAfter, u)) <= 1
       /\ (/\ last.op = "set_click"
           /\ last'.op = "set_click"
           /\ last'.user_id = last.user_id)
          => Lookup(StoreAfter, last'.user_id) = <<last'.key, last'.value>>]_vars

\* C3: set_click never raises; when a remote call inside it raises while the
\* backend is sheets, (k, v) is in the volatile map for u and the backend
\* flag is memory.
C3_SetClickFallsBack ==
    last.op = "set_click" =>
        /\ ~last.raised
        /\ (last.was = "sheets" /\ last.fail # "none") =>
               /\ backend = "memory"
               /\ dict_get(mem, last.user_id) = (last.key :> last.value)

\* C3 witness: a set_click on the sheets backend whose row write raised.
C3_Witness ==
    /\ last.op = "set_click"
    /\ last.was = "sheets"
    /\ last.fail = "write"
    /\ backend = "memory"
    /\ last.user_id \in DOMAIN mem

\* The store with the volatile map as its backend.
Volatile == [Store EXCEPT !.backend = "memory"]

C10_RemoveReturnsExisted ==
    [][(last' # last /\ last'.op = "remove_click") =>
         /\ last'.removed <=> (Lookup(Store, last'.user_id) # None)
         /\ \A f \in GetFailsOn(StoreAfter) :
               get_click(StoreAfter, last'.user_id, f).ret = None]_vars

\* C10 (amended): remove_click(u) returns true only if a binding for u
\* existed just before the call; when no remote call inside it raises it
\* returns true exactly when one existed and get_click(u) returns none
\* afterwards; when a remote call inside it raises it returns false.
C10_RemoveAmended ==
    [][(last' # last /\ last'.op = "remove_click") =>
         /\ last'.removed => (Lookup(Store, last'.user_id) # None)
         /\ last'.fail = "none" =>
              /\ last'.removed <=> (Lookup(Store, last'.user_id) # None)
              /\ \A f \in GetFailsOn(StoreAfter) :
                    get_click(StoreAfter, last'.user_id, f).ret = None
         /\ last'.fail # "none" => ~last'.removed]_vars

\* C10 witness: a remove_click on the sheets backend that found and removed
\* the user's row, another user's row staying.
C10_Witness ==
    /\ last.op = "remove_click"
    /\ last.was = "sheets"
    /\ last.removed
    /\ Len(sheet) = 2
    /\ Lookup(Store, last.user_id) = None

\* ----------------------------------------------- claims on the webhook route
\* How many times a handler made the call c.
Count(calls, c) == Cardinality({i \in DOMAIN calls : calls[i] = c})

\* C5: a webhook call whose path secret equals the configured secret is
\* always answered with the success acknowledgement {ok: true}: a body that
\* is not valid JSON is read as an empty update and dispatch is still
\* attempted, and no exception raised while the update is built or
\* dispatched, a handler's included, changes the response.
C5_GoodSecretAlwaysOk ==
    ev.secret = WEBHOOK_SECRET =>
        /\ ev.status = 200
        /\ ev.ok
        /\ ev.parsed
        /\ ev.dispatched

\* A handler raised under the configured secret, and the answer is ok.
C5_Witness ==
    /\ ev.secret = WEBHOOK_SECRET
    /\ ev.handler = "on_start_msg"
    /\ ev.raised
    /\ ev.ok

\* C6: a webhook call whose path secret differs from the configured secret
\* never reaches parsing or dispatch: no handler runs, no store or uploader
\* call is made, the store is unchanged, and the answer is the failure
\* acknowledgement (ok = false, HTTP 403).
C6_BadSecretRejected ==
    [][ev'.secret # WEBHOOK_SECRET =>
          /\ UNCHANGED <<backend, mem, sheet, last>>
          /\ ev'.status = 403
          /\ ~ev'.ok
          /\ ~ev'.parsed
          /\ ~ev'.dispatched
          /\ ev'.handler = "none"
          /\ ev'.calls = <<>>
          /\ ~ev'.upload.sent]_vars

\* A call with a wrong secret was refused while the worksheet held a binding.
C6_Witness ==
    /\ ev.secret # WEBHOOK_SECRET
    /\ ev.status = 403
    /\ backend = "sheets"
    /\ Len(sheet) > 1

\* C7: in the join-request flow a failed approval is terminal: when
\* req.approve() fails, the handler looks up no binding and makes no
\* conversion upload for that event.
C7_FailedApprovalTerminal ==
    (ev.handler = "on_join_request" /\ ~ev.approve_ok) =>
        /\ Count(ev.calls, "get_click") = 0
        /\ Count(ev.calls, "upload_click_conversion") = 0
        /\ ~ev.upload.sent

\* C8: for a join request whose approval succeeds, the uploader is invoked
\* exactly once if get_click returned a binding and the reporting client is
\* configured, and not at all otherwise, whatever the uploader answers
\* (a partial failure included); the handler does not raise.
C8_UploadIffBindingAndClient ==
    (ev.handler = "on_join_request" /\ ev.approve_ok) =>
        /\ Count(ev.calls, "upload_click_conversion")
             = (IF ev.pair # None /\ google_ads_client THEN 1 ELSE 0)
        /\ ev.upload.sent <=> (ev.pair # None /\ google_ads_client)
        /\ ~ev.raised
        /\ ev.ok

\* An approved join request whose upload came back with a partial failure.
C8_Witness ==
    /\ ev.handler = "on_join_request"
    /\ ev.approve_ok
    /\ ev.pair # None
    /\ ev.upload.sent
    /\ ev.upload.outcome = "partial_failure"

\* C9: every join request ends without a retry: approve is invoked exactly
\* once and the upload at most once, whether they succeed or fail, and the
\* handler then finishes.
C9_NoRetries ==
    ev.handler = "on_join_request" =>
        /\ Count(ev.calls, "approve") = 1
        /\ Count(ev.calls, "upload_click_conversion") <= 1
        /\ ~ev.raised
        /\ ev.status = 200

\* A join request whose approval failed and whose upload raised.
C9_Witness ==
    /\ ev.handler = "on_join_request"
    /\ ~ev.approve_ok
    /\ ev.upload.sent
    /\ ev.upload.outcome = "raises"

\* ------------------------------------------------ further claims on Storage
\* C11: remove_click(u) for a user with no binding returns false and leaves
\* get_click(u) returning None, on both backends.
C11_RemoveAbsent ==
    [][(last'.op = "remove_click" /\ Lookup(Store, last'.user_id) = None) =>
          /\ ~last'.removed
          /\ \A f \in GetFailsOn(StoreAfter) :
                get_click(StoreAfter, last'.user_id, f).ret = None]_vars

\* A remove_click on the sheets backend, no call failing, for a user without
\* a row, while the other user's row stays.
C11_Witness ==
    /\ last.op = "remove_click"
    /\ last.was = "sheets"
    /\ last.fail = "none"
    /\ ~last.removed
    /\ Len(sheet) = 2
    /\ Lookup(Store, last.user_id) = None

\* C12: the backend flag is monotone: once it is "memory", chosen by the
\* constructor or by a downgrade, no set_click, get_click or remove_click,
\* failing or not, sets it back to "sheets".
C12_BackendMonotone ==
    [][backend = "memory" => backend' = "memory"]_vars

\* A remove_click that found the backend "memory" removed a binding, and the
\* backend is still "memory".
C12_Witness ==
    /\ last.op = "remove_click"
    /\ last.was = "memory"
    /\ last.removed
    /\ backend = "memory"

\* C13: the store starts with backend = "sheets" if and only if the
\* credentials and the sheet id are both configured and the remote
\* initialization succeeds; in every other case it starts with backend =
\* "memory", and the set_click and get_click calls that follow succeed on
\* the volatile map.
C13_BackendSelection ==
    [][/\ last.op = "init" =>
            (backend = "sheets" <=> (last.ret[1] /\ last.ret[2] /\ last.ret[3]))
       /\ (backend = "memory" /\ last'.op = "set_click") =>
            /\ ~last'.raised
            /\ backend' = "memory"
            /\ entry_pair(dict_get(mem', last'.user_id))
                 = <<last'.key, last'.value>>
       /\ (backend = "memory" /\ last'.op = "get_click") =>
            /\ ~last'.raised
            /\ last'.ret = entry_pair(dict_get(mem, last'.user_id))
       /\ (/\ last.op = "set_click"
           /\ backend = "memory"
           /\ last'.op = "get_click"
           /\ last'.user_id = last.user_id) =>
            last'.ret = <<last.key, last.value>>]_vars

\* Both settings present, the initialization failed, the backend is memory.
C13_Witness ==
    /\ last.op = "init"
    /\ last.ret = <<TRUE, TRUE, FALSE>>
    /\ backend = "memory"

\* --------------------------------------------- claims on classify_click_id
\* The places of the string v where the marker of a kind stands.
MarkerAt(v, kind) ==
    {i \in 1..Len(v) :
        /\ i + Len(MarkerOf[kind]) - 1 <= Len(v)
        /\ SubSeq(v, i, i + Len(MarkerOf[kind]) - 1) = MarkerOf[kind]}

\* The non-empty run of characters other than "&" and whitespace after the
\* marker at place i.
MarkerValue(v, kind, i) == run_from(v, i + Len(MarkerOf[kind]))

\* The input starts with the prefix another kind is recognised by.
OtherPrefix(v) ==
    \/ startswith(lower(strip(v)), <<"w", "b", "r", "a", "i", "d", ".">>)
    \/ startswith(lower(strip(v)), <<"g", "b", "r", "a", "i", "d", ".">>)

\* C14 (as claimed, read for a string that holds one marker and no prefix
\* of another kind): for an input that contains gclid=X, gbraid=X or
\* wbraid=X, X a non-empty run of characters other than "&" and whitespace,
\* classify_click_id returns the kind named by the marker and exactly X as
\* the value, with nothing before the marker and nothing after X.
C14_MarkerExtraction ==
    last.op = "classify_click_id" =>
        \A kind \in Kinds :
            \A i \in MarkerAt(last.value, kind) :
                (/\ \A other \in Kinds \ {kind} :
                        MarkerAt(lower(last.value), other) = {}
                 /\ MarkerAt(lower(last.value), kind) = {i}
                 /\ ~OtherPrefix(last.value)
                 /\ MarkerValue(last.value, kind, i) # <<>>)
                => last.ret = <<kind, MarkerValue(last.value, kind, i)>>

\* None of the tests of classify_click_id recognises the input.
NoMarker(value) ==
    LET low == lower(strip(value))
    IN /\ \A kind \in Kinds : ~contains(low, MarkerOf[kind])
       /\ ~startswith(low, <<"w", "b", "r", "a", "i", "d", ".">>)
       /\ ~startswith(low, <<"g", "b", "r", "a", "i", "d", ".">>)
       /\ ~startswith(low, <<"c", ".">>)

BothDone == \A p \in Callers : inflight[p].pc = "done"

\* The remote calls of the two operations interleaved.
Overlapped == \E p \in Callers : ~inflight[p].alone

\* The binding written by p's set_click is not in the table, and the other
\* caller did not remove that user's binding.
Lost(p) ==
    /\ inflight[p].op = "set_click"
    /\ \A q \in Callers \ {p} :
          ~(inflight[q].op = "remove_click"
            /\ inflight[q].user_id = inflight[p].user_id)
    /\ Lookup(Store, inflight[p].user_id) = None

\* A user has two rows.
TwoRows == \E u \in Users : Cardinality(HeldBy(Store, u)) >= 2

IdFields(req) == {f \in Kinds : req[f] # None}

\* C17 (as claimed): every conversion upload built by the join flow or by
\* /convert_test carries exactly one of the fields gclid, gbraid, wbraid:
\* the one named by the kind of the user's binding, set to the binding's
\* value, together with a non-empty dedup token.
C17_UploadCarriesOneId ==
    ev.upload.sent =>
        /\ IdFields(ev.upload) = {ev.pair[1]}
        /\ ev.upload[ev.pair[1]] = ev.pair[2]
        /\ ev.upload.order_id # None

\* ------------------------------------- claims on the backend flag and frame
\* C18 (as claimed): the backend flag, which /health reports, names the
\* backend that served the most recent store operation: after a get_click
\* or a remove_click whose remote call failed the flag reads "memory".
C18_FlagNamesServingBackend ==
    (last.op \in {"get_click", "remove_click"} /\ last.fail # "none")
        => backend = "memory"

\* C19 (as claimed): for two distinct users u and u', a set_click(u, ...) or
\* a remove_click(u), one in which a remote call fails partway included,
\* never changes what get_click(u') returns.
C19_FrameAcrossUsers ==
    [][last'.op \in {"set_click", "remove_click"} =>
          \A u \in Users \ {last'.user_id} :
              Lookup(StoreAfter, u) = Lookup(Store, u)]_vars

\* C20: in every reachable state where the backend flag is "sheets" the
\* volatile map is empty, so a get_click whose remote read fails while the
\* backend is "sheets" returns None whatever the table holds.
C20_MemEmptyWhileSheets ==
    backend = "sheets" =>
        /\ mem = <<>>
        /\ \A u \in Users : get_click(Store, u, "read").ret = None
        /\ (last.op = "get_click" /\ last.fail = "read") => last.ret = None

\* A get_click whose read failed returned None for a user the table holds.
C20_Witness ==
    /\ backend = "sheets"
    /\ last.op = "get_click"
    /\ last.fail = "read"
    /\ last.ret = None
    /\ Lookup(Store, last.user_id) # None

====
